---------------------------- MODULE Spec2Model ----------------------------
(***************************************************************************)
(* A model of OMNeT++'s fixed-point simulation time, src/sim/simtime.cc:   *)
(* the set-once scale exponent (SimTime::setScaleExp), the overflow-       *)
(* checked arithmetic and unit conversions of SimTime, the compact         *)
(* auto-unit printer (SimTime::ustr) and the rational division helper      *)
(* operator/(long long, const SimTime&).                                   *)
(*                                                                         *)
(* int64_t is modelled at its full width.  TLC's own integers are 32 bits  *)
(* wide, so a mathematical integer is a record [neg, mag] whose magnitude  *)
(* is a little-endian sequence of base-10^4 limbs; int64_t arithmetic is   *)
(* exact arithmetic on these records followed by a reduction modulo 2^64   *)
(* into [-2^63, 2^63-1].                                                   *)
(***************************************************************************)
EXTENDS Integers, Sequences, FiniteSets, TLC

-----------------------------------------------------------------------------
(* Natural numbers: little-endian limb sequences, no most-significant zero  *)
(* limb, <<>> is 0.                                                         *)

LimbBase == 10^4

RECURSIVE NNorm(_)
NNorm(a) ==
    IF a = <<>> THEN <<>>
    ELSE IF a[Len(a)] = 0 THEN NNorm(SubSeq(a, 1, Len(a) - 1))
    ELSE a

NFromInt(n) ==
    IF n = 0 THEN <<>>
    ELSE IF n < LimbBase THEN <<n>>
    ELSE IF n < LimbBase * LimbBase THEN <<n % LimbBase, n \div LimbBase>>
    ELSE <<n % LimbBase, (n \div LimbBase) % LimbBase, n \div (LimbBase * LimbBase)>>

RECURSIVE NAddC(_, _, _)
NAddC(a, b, c) ==
    IF a = <<>> /\ b = <<>> THEN (IF c = 0 THEN <<>> ELSE <<c>>)
    ELSE LET x == IF a = <<>> THEN 0 ELSE Head(a)
             y == IF b = <<>> THEN 0 ELSE Head(b)
             s == x + y + c
         IN  <<s % LimbBase>> \o
             NAddC(IF a = <<>> THEN <<>> ELSE Tail(a),
                   IF b = <<>> THEN <<>> ELSE Tail(b), s \div LimbBase)

NAdd(a, b) == NAddC(a, b, 0)

\* a - b - c for a >= b + c, limb by limb with borrow c; not normalised
RECURSIVE NSubB(_, _, _)
NSubB(a, b, c) ==
    IF a = <<>> THEN <<>>
    ELSE LET y == IF b = <<>> THEN 0 ELSE Head(b)
             d == Head(a) - y - c
         IN  <<IF d < 0 THEN d + LimbBase ELSE d>> \o
             NSubB(Tail(a), IF b = <<>> THEN <<>> ELSE Tail(b), IF d < 0 THEN 1 ELSE 0)

NSub(a, b) == NNorm(NSubB(a, b, 0))

\* -1, 0, 1 as a < b, a = b, a > b
RECURSIVE NCmpFrom(_, _, _)
NCmpFrom(a, b, i) ==
    IF i = 0 THEN 0
    ELSE IF a[i] < b[i] THEN -1
    ELSE IF a[i] > b[i] THEN 1
    ELSE NCmpFrom(a, b, i - 1)

NCmp(a, b) ==
    IF Len(a) < Len(b) THEN -1
    ELSE IF Len(a) > Len(b) THEN 1
    ELSE NCmpFrom(a, b, Len(a))

RECURSIVE NMulLimbC(_, _, _)
NMulLimbC(a, d, c) ==
    IF a = <<>> THEN (IF c = 0 THEN <<>> ELSE <<c>>)
    ELSE LET p == Head(a) * d + c
         IN  <<p % LimbBase>> \o NMulLimbC(Tail(a), d, p \div LimbBase)

NMulLimb(a, d) == IF d = 0 THEN <<>> ELSE NMulLimbC(a, d, 0)

NShift(a) == IF a = <<>> THEN <<>> ELSE <<0>> \o a

RECURSIVE NMul(_, _)
NMul(a, b) ==
    IF a = <<>> \/ b = <<>> THEN <<>>
    ELSE NAdd(NMulLimb(a, Head(b)), NShift(NMul(a, Tail(b))))

\* the largest d in lo..hi with b*d <= cur, by bisection
RECURSIVE NQuotDigit(_, _, _, _)
NQuotHalf(cur, b, lo, hi, mid, fits) ==
    NQuotDigit(cur, b, IF fits THEN mid ELSE lo, IF fits THEN hi ELSE mid - 1)

NQuotMid(cur, b, lo, hi, mid) ==
    NQuotHalf(cur, b, lo, hi, mid, NCmp(NMulLimb(b, mid), cur) <= 0)

NQuotDigit(cur, b, lo, hi) ==
    IF lo = hi THEN lo ELSE NQuotMid(cur, b, lo, hi, (lo + hi + 1) \div 2)

\* [q, r] with a = q*b + r and 0 <= r < b, for b # 0: long division, one limb
\* of a at a time from the most significant; hi is the result for the limbs above
RECURSIVE NDivMod(_, _)
NDivOut(cur, q, b, d) == [q |-> NNorm(<<d>> \o q), r |-> NSub(cur, NMulLimb(b, d))]

NDivDigit(cur, q, b) ==
    NDivOut(cur, q, b, IF NCmp(cur, b) < 0 THEN 0 ELSE NQuotDigit(cur, b, 1, LimbBase - 1))

NDivLimb(h, hi, b) == NDivDigit(NNorm(<<h>> \o hi.r), hi.q, b)

NDivMod(a, b) ==
    IF a = <<>> THEN [q |-> <<>>, r |-> <<>>]
    ELSE NDivLimb(Head(a), NDivMod(Tail(a), b), b)

-----------------------------------------------------------------------------
(* Mathematical integers: [neg, mag], zero is never negative, so that two   *)
(* records are equal exactly when the integers are.                         *)

ZMake(neg, mag) == [neg |-> (neg /\ mag # <<>>), mag |-> mag]

Z(n) == IF n < 0 THEN ZMake(TRUE, NFromInt(-n)) ELSE ZMake(FALSE, NFromInt(n))

ZZero == [neg |-> FALSE, mag |-> <<>>]

ZNeg(a) == ZMake(~a.neg, a.mag)

ZAbs(a) == ZMake(FALSE, a.mag)

\* a + b for a, b of opposite signs; aBig: |a| >= |b|
ZAddOpposite(a, b, aBig) ==
    ZMake(IF aBig THEN a.neg ELSE b.neg,
          NSub(IF aBig THEN a.mag ELSE b.mag, IF aBig THEN b.mag ELSE a.mag))

ZAdd(a, b) ==
    IF a.neg = b.neg THEN ZMake(a.neg, NAdd(a.mag, b.mag))
    ELSE ZAddOpposite(a, b, NCmp(a.mag, b.mag) >= 0)

ZSub(a, b) == ZAdd(a, ZNeg(b))

ZMul(a, b) == ZMake(a.neg # b.neg, NMul(a.mag, b.mag))

\* C's / and %: the quotient truncates toward zero, the remainder has the dividend's sign
ZDivT(a, b) == ZMake(a.neg # b.neg, NDivMod(a.mag, b.mag).q)

ZRemT(a, b) == ZMake(a.neg, NDivMod(a.mag, b.mag).r)

ZCmp(a, b) ==
    IF a.neg # b.neg THEN (IF a.neg THEN -1 ELSE 1)
    ELSE NCmp(IF a.neg THEN b.mag ELSE a.mag, IF a.neg THEN a.mag ELSE b.mag)

ZLt(a, b) == ZCmp(a, b) < 0

ZLe(a, b) == ZCmp(a, b) <= 0

\* 10^k as a mathematical integer, for k in 0..36
Pow10(k) ==
    IF k <= 9 THEN Z(10^k)
    ELSE IF k <= 18 THEN ZMul(Z(10^9), Z(10^(k - 9)))
    ELSE IF k <= 27 THEN ZMul(ZMul(Z(10^9), Z(10^9)), Z(10^(k - 18)))
    ELSE ZMul(ZMul(Z(10^9), Z(10^9)), ZMul(Z(10^9), Z(10^(k - 27))))

-----------------------------------------------------------------------------
(* int64_t *)

\* 2^63 = 9223372036854775808
TwoTo63 == [neg |-> FALSE, mag |-> <<5808, 5477, 368, 3372, 922>>]

\* 2^64 = 18446744073709551616
TwoTo64 == [neg |-> FALSE, mag |-> <<1616, 955, 737, 6744, 1844>>]

INT64_MAX == [neg |-> FALSE, mag |-> <<5807, 5477, 368, 3372, 922>>]

INT64_MIN == [neg |-> TRUE, mag |-> <<5808, 5477, 368, 3372, 922>>]

\* -2^63 <= z <= 2^63 - 1
InInt64(z) == NCmp(z.mag, TwoTo63.mag) < (IF z.neg THEN 1 ELSE 0)

\* the two's complement reading of a number of sign neg whose magnitude is m
\* modulo 2^64; c compares m with 2^63
Wrap64Low(neg, m, c) ==
    IF c > 0 \/ (c = 0 /\ ~neg)
    THEN ZMake(~neg, NSub(TwoTo64.mag, m))
    ELSE ZMake(neg, m)

Wrap64Mod(neg, m) == Wrap64Low(neg, m, NCmp(m, TwoTo63.mag))

\* the value of z's low 64 bits read as a two's complement number
Wrap64(z) ==
    IF InInt64(z) THEN z
    ELSE Wrap64Mod(z.neg, NDivMod(z.mag, TwoTo64.mag).r)

I64Add(a, b) == Wrap64(ZAdd(a, b))

I64Sub(a, b) == Wrap64(ZSub(a, b))

I64Mul(a, b) == Wrap64(ZMul(a, b))

I64Neg(a) == Wrap64(ZNeg(a))

\* a / b and a % b for b # 0.  INT64_MIN / -1 and INT64_MIN % -1 overflow: the
\* hardware either traps (x86 idiv raises SIGFPE) or yields the wrapped quotient
\* INT64_MIN and the remainder 0; DivOverflows names the case and the callers
\* below take the platform's outcome from idivOverflow.
DivOverflows(a, b) == a = INT64_MIN /\ b = Z(-1)

I64Div(a, b) == Wrap64(ZDivT(a, b))

I64Rem(a, b) == ZRemT(a, b)

-----------------------------------------------------------------------------
(* Program constants *)

\* simtime.cc:50
MAX_POWER_OF_TEN == 18

\* the distinguished value scaleexp holds before it is set (declared in simtime.h)
SCALEEXP_UNINITIALIZED == 65535

\* enum SimTimeUnit: SIMTIME_S = 0, SIMTIME_MS = -3, ... SIMTIME_AS = -18
SimTimeUnit == {0, -3, -6, -9, -12, -15, -18}

\* simtime.cc:53
unitNames == <<"s", "ms", "us", "ns", "ps", "fs", "as">>

\* simtime.cc:55-63: the value of power after the loop's round i (power *= 10 in
\* int64_t; the test on the previous power makes TLC compute it first)
RECURSIVE fillPowersOfTen(_)
fillPowersOfTen(i) ==
    IF i = 0 THEN Z(1)
    ELSE LET power == fillPowersOfTen(i - 1)
         IN  IF power = ZZero THEN ZZero ELSE I64Mul(power, Z(10))

\* simtime.cc:51, as the static initializer of line 65-67 leaves it
powersOfTen == [i \in 0..MAX_POWER_OF_TEN |-> fillPowersOfTen(i)]

\* simtime.cc:70-75
exp10(exponent) ==
    IF exponent < 0 \/ exponent > MAX_POWER_OF_TEN
    THEN Z(-1)
    ELSE powersOfTen[exponent]

-----------------------------------------------------------------------------
(* Bounds of the model *)

\* threads calling SimTime::setScaleExp
NThreads == 2

\* SimTime instances alive
NObjects == 2

\* how far around each boundary value the sampled int64_t inputs reach
MaxOffset == 1

Threads == 1..NThreads

ObjIds == 1..NObjects

\* the exponents callers pass to setScaleExp: in range, and just out of range
ExpArgs == {-19, -18, -3, 0, 1}

-----------------------------------------------------------------------------
(* State *)

VARIABLES
    scaleexp,       \* int SimTime::scaleexp
    dscale,         \* int64_t SimTime::dscale
    fscale,         \* double SimTime::fscale (a power of ten up to 10^18: exact)
    invfscale,      \* double SimTime::invfscale, kept as the fraction num/den
    maxseconds,     \* int64_t SimTime::maxseconds
    scaleExpMutex,  \* the thread holding scaleExpMutex, 0 when it is free
    pc,             \* pc[t]: where thread t is in setScaleExp
    arg,            \* arg[t]: the e thread t called setScaleExp with
    outcome,        \* outcome[t]: how thread t's last call ended
    seen,           \* what the unguarded reader last read of the registry
    idivOverflow,   \* what INT64_MIN / -1 does on this build: "trap" or "wrap"
    obj,            \* obj[i]: the raw tick count t of SimTime instance i
    res             \* the last SimTime operation: its inputs and what it did

registry == <<scaleexp, dscale, fscale, invfscale, maxseconds>>

threads == <<scaleExpMutex, pc, arg, outcome>>

values == <<idivOverflow, obj, res>>

vars == <<scaleexp, dscale, fscale, invfscale, maxseconds, scaleExpMutex, pc, arg,
          outcome, seen, idivOverflow, obj, res>>

NoRes == [op |-> "none", in |-> <<>>, status |-> "none", out |-> <<>>]

NotSeen == [read |-> FALSE, scaleexp |-> SCALEEXP_UNINITIALIZED, dscale |-> ZZero,
            maxseconds |-> ZZero]

ThreadsIdle ==
    /\ scaleExpMutex = 0
    /\ pc = [t \in Threads |-> "idle"]
    /\ arg = [t \in Threads |-> 0]
    /\ outcome = [t \in Threads |-> "none"]
    /\ seen = NotSeen

\* simtime.cc:41-45: the statics before any call (zero-initialized but for scaleexp)
RegistryUninitialized ==
    /\ scaleexp = SCALEEXP_UNINITIALIZED
    /\ dscale = ZZero
    /\ fscale = ZZero
    /\ invfscale = [num |-> 0, den |-> Z(1)]
    /\ maxseconds = ZZero

\* simtime.cc:146-150: the statics after setScaleExp(e) has run on the uninitialized registry
RegistrySetTo(e) ==
    /\ scaleexp = e
    /\ dscale = exp10(-e)
    /\ fscale = exp10(-e)
    /\ invfscale = [num |-> 1, den |-> exp10(-e)]
    /\ maxseconds = I64Div(INT64_MAX, exp10(-e))

-----------------------------------------------------------------------------
(* SimTime::setScaleExp, simtime.cc:133-151, one step per statement *)

\* line 137-138: the range check, before the guard is taken
Call(t, e) ==
    /\ pc[t] = "idle"
    /\ arg' = [arg EXCEPT ![t] = e]
    /\ IF e < -18 \/ e > 0
       THEN /\ outcome' = [outcome EXCEPT ![t] = "range"]
            /\ pc' = pc
       ELSE /\ outcome' = [outcome EXCEPT ![t] = "none"]
            /\ pc' = [pc EXCEPT ![t] = "l140"]
    /\ UNCHANGED <<registry, scaleExpMutex, seen, values>>

\* a broken guard: the lock is taken whether or not another thread holds it
LockUnguarded(t) ==
    /\ pc[t] = "l140"
    /\ scaleExpMutex' = t
    /\ pc' = [pc EXCEPT ![t] = "l141"]
    /\ UNCHANGED <<registry, arg, outcome, seen, values>>

\* line 140: std::lock_guard<std::mutex> guard(scaleExpMutex)
Lock(t) ==
    /\ pc[t] = "l140"
    /\ scaleExpMutex = 0
    /\ scaleExpMutex' = t
    /\ pc' = [pc EXCEPT ![t] = "l141"]
    /\ UNCHANGED <<registry, arg, outcome, seen, values>>

\* line 141-144: return on the same value, throw on another; either releases the guard
Compare(t) ==
    /\ pc[t] = "l141"
    /\ IF arg[t] = scaleexp
       THEN /\ outcome' = [outcome EXCEPT ![t] = "ok"]
            /\ pc' = [pc EXCEPT ![t] = "idle"]
            /\ scaleExpMutex' = 0
       ELSE IF scaleexp # SCALEEXP_UNINITIALIZED
       THEN /\ outcome' = [outcome EXCEPT ![t] = "conflict"]
            /\ pc' = [pc EXCEPT ![t] = "idle"]
            /\ scaleExpMutex' = 0
       ELSE /\ outcome' = outcome
            /\ pc' = [pc EXCEPT ![t] = "l146"]
            /\ scaleExpMutex' = scaleExpMutex
    /\ UNCHANGED <<registry, arg, seen, values>>

\* line 146: scaleexp = e
SetScaleexp(t) ==
    /\ pc[t] = "l146"
    /\ scaleexp' = arg[t]
    /\ pc' = [pc EXCEPT ![t] = "l147"]
    /\ UNCHANGED <<dscale, fscale, invfscale, maxseconds, scaleExpMutex, arg, outcome,
                   seen, values>>

\* line 147: dscale = exp10(-scaleexp)
SetDscale(t) ==
    /\ pc[t] = "l147"
    /\ dscale' = exp10(-scaleexp)
    /\ pc' = [pc EXCEPT ![t] = "l148"]
    /\ UNCHANGED <<scaleexp, fscale, invfscale, maxseconds, scaleExpMutex, arg, outcome,
                   seen, values>>

\* line 148-149: fscale = (double)dscale; invfscale = 1.0 / fscale
SetFscale(t) ==
    /\ pc[t] = "l148"
    /\ fscale' = dscale
    /\ invfscale' = [num |-> 1, den |-> dscale]
    /\ pc' = [pc EXCEPT ![t] = "l150"]
    /\ UNCHANGED <<scaleexp, dscale, maxseconds, scaleExpMutex, arg, outcome, seen, values>>

\* line 150-151: maxseconds = INT64_MAX / dscale, and the guard is released
SetMaxseconds(t) ==
    /\ pc[t] = "l150"
    /\ maxseconds' = I64Div(INT64_MAX, dscale)
    /\ outcome' = [outcome EXCEPT ![t] = "ok"]
    /\ pc' = [pc EXCEPT ![t] = "idle"]
    /\ scaleExpMutex' = 0
    /\ UNCHANGED <<scaleexp, dscale, fscale, invfscale, arg, seen, values>>

\* any other thread reading the statics, as every SimTime operation does, without the guard
ReadRegistry ==
    /\ seen' = [read |-> TRUE, scaleexp |-> scaleexp, dscale |-> dscale,
                maxseconds |-> maxseconds]
    /\ seen' # seen
    /\ UNCHANGED <<registry, threads, values>>

InitRes ==
    /\ RegistryUninitialized
    /\ ThreadsIdle
    /\ idivOverflow = "trap"
    /\ obj = [i \in ObjIds |-> ZZero]
    /\ res = NoRes

NextRes ==
    \/ \E t \in Threads, e \in ExpArgs : Call(t, e)
    \/ \E t \in Threads : Lock(t)
    \/ \E t \in Threads : Compare(t)
    \/ \E t \in Threads : SetScaleexp(t)
    \/ \E t \in Threads : SetDscale(t)
    \/ \E t \in Threads : SetFscale(t)
    \/ \E t \in Threads : SetMaxseconds(t)
    \/ ReadRegistry

SpecRes == InitRes /\ [][NextRes]_vars

-----------------------------------------------------------------------------
(* SimTime values.  Each operation is an operator on raw tick counts that    *)
(* reads the statics, as the member function does.                           *)

\* SimTimeCtor without the divide-back test of line 219: the product is stored as it is
SimTimeCtorUnchecked(value, unit) ==
    IF scaleexp = SCALEEXP_UNINITIALIZED
    THEN [status |-> "uninit", t |-> ZZero]
    ELSE LET expdiff == unit - scaleexp
         IN  IF expdiff < 0
             THEN LET mul == exp10(-expdiff)
                      tmp == I64Div(value, mul)
                  IN  IF mul = Z(-1) \/ I64Mul(tmp, mul) # value
                      THEN [status |-> "precision", t |-> value]
                      ELSE [status |-> "ok", t |-> tmp]
             ELSE IF expdiff > 0
             THEN [status |-> "ok", t |-> I64Mul(value, exp10(expdiff))]
             ELSE [status |-> "ok", t |-> value]

\* simtime.cc:197-223: SimTime::SimTime(int64_t value, SimTimeUnit unit).
\* status "uninit", "precision", "overflow": the cRuntimeError of line 201, 211, 220
SimTimeCtor(value, unit) ==
    IF scaleexp = SCALEEXP_UNINITIALIZED
    THEN [status |-> "uninit", t |-> ZZero]
    ELSE LET expdiff == unit - scaleexp
         IN  IF expdiff < 0
             THEN LET mul == exp10(-expdiff)
                      tmp == I64Div(value, mul)
                  IN  IF mul = Z(-1) \/ I64Mul(tmp, mul) # value
                      THEN [status |-> "precision", t |-> value]
                      ELSE [status |-> "ok", t |-> tmp]
             ELSE IF expdiff > 0
             THEN LET mul == exp10(expdiff)
                      t   == I64Mul(value, mul)
                  IN  IF mul = Z(-1) \/ I64Div(t, mul) # value
                      THEN [status |-> "overflow", t |-> t]
                      ELSE [status |-> "ok", t |-> t]
             ELSE [status |-> "ok", t |-> value]

\* simtime.cc:237-253: SimTime::inUnit.  -x on INT64_MIN wraps to INT64_MIN.
inUnit(t, unit) ==
    LET expdiff == unit - scaleexp
    IN  IF expdiff > 0
        THEN LET mul == exp10(expdiff)
             IN  [status |-> "ok", x |-> IF mul = Z(-1) THEN ZZero ELSE I64Div(t, mul)]
        ELSE IF expdiff < 0
        THEN LET mul  == exp10(-expdiff)
                 absx == IF ZLt(t, ZZero) THEN I64Neg(t) ELSE t
             IN  IF mul = Z(-1) \/ ~ZLt(absx, I64Div(INT64_MAX, mul))
                 THEN [status |-> "overflow", x |-> t]
                 ELSE [status |-> "ok", x |-> I64Mul(t, mul)]
        ELSE [status |-> "ok", x |-> t]

\* simtime.h, operator-(const SimTime&, const SimTime&): a copy of the left operand,
\* then -=, which detects the overflow of the signed 64-bit range and fails
operatorMinus(a, b) ==
    IF InInt64(ZSub(a, b))
    THEN [status |-> "ok", t |-> ZSub(a, b)]
    ELSE [status |-> "overflow", t |-> a]

\* split with the count subtracted as it is, not converted back to ticks
splitUnconverted(t, unit) ==
    LET outValue == inUnit(t, unit)
    IN  IF outValue.status # "ok"
        THEN [status |-> outValue.status, outValue |-> ZZero, outRemainder |-> ZZero]
        ELSE LET diff == operatorMinus(t, outValue.x)
             IN  [status |-> diff.status, outValue |-> outValue.x, outRemainder |-> diff.t]

\* simtime.cc:255-259: SimTime::split
split(t, unit) ==
    LET outValue == inUnit(t, unit)
    IN  IF outValue.status # "ok"
        THEN [status |-> outValue.status, outValue |-> ZZero, outRemainder |-> ZZero]
        ELSE LET whole == SimTimeCtor(outValue.x, unit)
             IN  IF whole.status # "ok"
                 THEN [status |-> whole.status, outValue |-> outValue.x,
                       outRemainder |-> ZZero]
                 ELSE LET diff == operatorMinus(t, whole.t)
                      IN  [status |-> diff.status, outValue |-> outValue.x,
                           outRemainder |-> diff.t]

\* simtime.cc:225-235: SimTime::checkedMul.  tmp / x is INT64_MIN / -1 when
\* t = INT64_MIN and x = -1: status "sigfpe" where the division traps.
checkedMul(t, x) ==
    LET tmp == I64Mul(t, x)
    IN  IF x = ZZero THEN [status |-> "ok", t |-> tmp]
        ELSE IF DivOverflows(tmp, x) /\ idivOverflow = "trap"
        THEN [status |-> "sigfpe", t |-> t]
        ELSE IF I64Div(tmp, x) = t THEN [status |-> "ok", t |-> tmp]
        ELSE [status |-> "overflow", t |-> t]

\* the loop of ustr() comparing with <=: a magnitude of exactly one unit moves on
\* to the next finer unit
RECURSIVE ustrUnitExpInclusive(_, _)
ustrUnitExpInclusive(tt, unitExp) ==
    IF unitExp > scaleexp /\ ZLe(tt, powersOfTen[-scaleexp + unitExp])
    THEN ustrUnitExpInclusive(tt, unitExp - 3)
    ELSE unitExp

\* simtime.cc:368-370: the while loop of ustr()
RECURSIVE ustrUnitExp(_, _)
ustrUnitExp(tt, unitExp) ==
    IF unitExp > scaleexp /\ ZLt(tt, powersOfTen[-scaleexp + unitExp])
    THEN ustrUnitExp(tt, unitExp - 3)
    ELSE unitExp

\* simtime.cc:374-382: SimTime::ustr(SimTimeUnit): the digits of t with the decimal
\* exponent scaleexp-unitExp handed to opp_ttoa, and the unit's name appended
ustrIn(t, unit) ==
    [t |-> t, exp |-> scaleexp - unit, unitExp |-> unit, unit |-> unitNames[(-unit) \div 3 + 1]]

\* simtime.cc:354-372: SimTime::ustr()
ustr(t) ==
    IF t = ZZero
    THEN [t |-> ZZero, exp |-> 0, unitExp |-> 0, unit |-> "s"]
    ELSE LET neg == I64Neg(t)
             tt  == IF ZLt(t, ZZero)
                    THEN (IF ZLt(neg, ZZero) THEN I64Neg(I64Add(neg, Z(1))) ELSE neg)
                    ELSE t
         IN  ustrIn(t, ustrUnitExp(tt, 0))

-----------------------------------------------------------------------------
(* Sampled int64_t inputs: around zero, the powers of ten, the quotients     *)
(* INT64_MAX / 10^k at which a scaled value stops fitting, and both ends of  *)
(* the range.                                                                *)

Near(z) == {w \in {ZAdd(z, Z(k)) : k \in -MaxOffset..MaxOffset} : InInt64(w)}

Mirror(S) == S \cup {ZNeg(w) : w \in S}

\* the decimal orders at which boundary values are sampled
SampleOrders == {1, 3, 9, 17, 18}

BoundaryValues ==
    UNION {Mirror(Near(exp10(k))) \cup Mirror(Near(I64Div(INT64_MAX, exp10(k)))) :
           k \in SampleOrders}

EndValues == Near(ZZero) \cup Near(INT64_MAX) \cup Near(INT64_MIN)

ScaleExps == -18..0

ValuesIdle(platforms) ==
    /\ ThreadsIdle
    /\ idivOverflow \in platforms
    /\ res = NoRes

Configured == \E e \in ScaleExps : RegistrySetTo(e)

-----------------------------------------------------------------------------
(* SpecCtor: SimTime(value, unit), before and after the resolution is fixed *)

CtorValues == EndValues \cup BoundaryValues \cup Mirror({Z(1500), Z(1000000)})

Construct(i, value, unit) ==
    /\ res.op = "none"
    /\ LET r == SimTimeCtor(value, unit)
       IN  /\ res' = [op |-> "ctor", in |-> <<value, unit>>, status |-> r.status,
                      out |-> <<r.t>>]
           /\ obj' = IF r.status = "ok" THEN [obj EXCEPT ![i] = r.t] ELSE obj
    /\ UNCHANGED <<registry, threads, seen, idivOverflow>>

InitCtor ==
    /\ RegistryUninitialized \/ Configured
    /\ ValuesIdle({"trap"})
    /\ obj = [i \in ObjIds |-> ZZero]

NextCtor == \E value \in CtorValues, unit \in SimTimeUnit : Construct(1, value, unit)

SpecCtor == InitCtor /\ [][NextCtor]_vars

-----------------------------------------------------------------------------
(* Claims about the resolution registry, checked under SpecRes *)

ExponentFixed == scaleexp \in -18..0

\* C1: under any interleaving of setScaleExp calls by any number of threads the
\* exponent changes at most once, from the uninitialized sentinel to a value in
\* [-18, 0], and never afterwards; a call ends in success only with the fixed
\* value, a call reaching the comparison with the fixed value succeeds and one
\* with another value fails, an out-of-range call fails, and every call but the
\* one that fixes the exponent leaves the exponent and the scale constants as
\* they were.
C1_SetOnce ==
    [][ /\ (scaleexp # SCALEEXP_UNINITIALIZED => scaleexp' = scaleexp)
        /\ (scaleexp' # scaleexp => scaleexp' \in -18..0)
        /\ \A t \in Threads :
              /\ (outcome[t] # "ok" /\ outcome'[t] = "ok") => scaleexp' = arg'[t]
              /\ (outcome[t] # outcome'[t] /\ outcome'[t] \in {"conflict", "range"})
                    => (arg'[t] # scaleexp /\ registry' = registry)
              /\ (pc[t] = "idle" /\ arg'[t] \notin -18..0 /\ arg'[t] # arg[t])
                    => (outcome'[t] = "range" /\ pc'[t] = "idle")
              /\ (pc[t] = "l141" /\ pc'[t] # "l141" /\ arg[t] = scaleexp)
                    => (outcome'[t] = "ok" /\ registry' = registry)
              /\ (pc[t] = "l141" /\ pc'[t] # "l141" /\ ExponentFixed /\ arg[t] # scaleexp)
                    => (outcome'[t] = "conflict" /\ registry' = registry)
              /\ (registry' # registry) => (\E w \in Threads : pc'[w] # pc[w] /\ arg[w] = scaleexp')
      ]_vars

\* C1's case: the exponent is fixed, one caller has succeeded, another has been refused
C1_Witness ==
    /\ ExponentFixed
    /\ \E t, u \in Threads : outcome[t] = "ok" /\ outcome[u] = "conflict"

\* C2: in every reachable state, and in every snapshot an unguarded reader takes,
\* an exponent fixed to e comes with dscale = 10^(-e) and
\* maxseconds = floor(INT64_MAX / 10^(-e)).
C2_FixedComesWithScales ==
    /\ ExponentFixed =>
          /\ dscale = Pow10(-scaleexp)
          /\ maxseconds = ZDivT(INT64_MAX, Pow10(-scaleexp))
    /\ (seen.read /\ seen.scaleexp \in -18..0) =>
          /\ seen.dscale = Pow10(-seen.scaleexp)
          /\ seen.maxseconds = ZDivT(INT64_MAX, Pow10(-seen.scaleexp))
-----------------------------------------------------------------------------
(* Claims about SimTime(value, unit), checked under SpecCtor *)

\* C4: while the resolution is uninitialized, constructing from an integer and a
\* unit fails with the uninitialized-resolution error if and only if the integer
\* is nonzero; integer 0 constructs, for every unit, and yields raw = 0.
C4_ZeroConstructsUninitialized ==
    (res.op = "ctor" /\ scaleexp = SCALEEXP_UNINITIALIZED) =>
        /\ (res.status = "uninit") <=> (res.in[1] # ZZero)
        /\ (res.in[1] = ZZero) => (res.status = "ok" /\ res.out[1] = ZZero)

\* C7: with the resolution fixed to e, SimTime(v, u) with d = u - e either
\* succeeds with raw * 10^e = v * 10^u exactly, or fails: with the precision
\* error exactly when d < 0 and 10^(-d) does not divide v, with the overflow
\* error exactly when d > 0 and v * 10^d is outside the signed 64-bit range.
C7_CtorExactOrFails ==
    (res.op = "ctor" /\ ExponentFixed) =>
        LET v == res.in[1]
            u == res.in[2]
            d == u - scaleexp
        IN  /\ res.status \in {"ok", "precision", "overflow"}
            /\ (res.status = "precision") <=> (d < 0 /\ ZRemT(v, Pow10(-d)) # ZZero)
            /\ (res.status = "overflow") <=> (d > 0 /\ ~InInt64(ZMul(v, Pow10(d))))
            /\ (res.status = "ok") =>
                  /\ ZMul(res.out[1], Pow10(scaleexp + 18)) = ZMul(v, Pow10(u + 18))
                  /\ obj[1] = res.out[1]

\* C7's case: a product v * 10^d that left the 64-bit range and was refused
C7_Witness ==
    /\ res.op = "ctor" /\ ExponentFixed
    /\ res.in[2] - scaleexp > 0
    /\ res.status = "overflow"
    /\ ~InInt64(ZMul(res.in[1], Pow10(res.in[2] - scaleexp)))

-----------------------------------------------------------------------------
(* SpecArith: a += b and a -= b on SimTime instances; a and b may be the     *)
(* same instance.  The operand is passed by reference, so heap[j] is read    *)
(* when the statement that uses x.t runs.                                    *)

\* simtime.cc:177-182: SimTime::overflowAdding(const SimTime& x), run on instance i
\* with x bound to instance j
overflowAdding(heap, i, j) == [heap EXCEPT ![i] = I64Sub(heap[i], heap[j])]

\* simtime.cc:184-189: SimTime::overflowSubtracting(const SimTime& x)
overflowSubtracting(heap, i, j) == [heap EXCEPT ![i] = I64Add(heap[i], heap[j])]

\* simtime.h, operator+=(const SimTime& x): raw is updated by x's raw, then the
\* overflow of the signed 64-bit range is detected and handed to overflowAdding
operatorPlusAssign(heap, i, j) ==
    LET added == [heap EXCEPT ![i] = I64Add(heap[i], heap[j])]
    IN  IF InInt64(ZAdd(heap[i], heap[j]))
        THEN [status |-> "ok", heap |-> added]
        ELSE [status |-> "overflow", heap |-> overflowAdding(added, i, j)]

\* simtime.h, operator-=(const SimTime& x)
operatorMinusAssign(heap, i, j) ==
    LET subtracted == [heap EXCEPT ![i] = I64Sub(heap[i], heap[j])]
    IN  IF InInt64(ZSub(heap[i], heap[j]))
        THEN [status |-> "ok", heap |-> subtracted]
        ELSE [status |-> "overflow", heap |-> overflowSubtracting(subtracted, i, j)]

\* the resolutions sampled for operations that do not read the statics
PlainScaleExps == {-12, 0}

ArithValues == EndValues \cup Mirror({ZDivT(TwoTo63, Z(2))})

AddAssign(i, j) ==
    /\ res.op = "none"
    /\ \E r \in {operatorPlusAssign(obj, i, j)} :
          /\ res' = [op |-> "add", in |-> <<i, j, obj>>, status |-> r.status,
                     out |-> <<r.heap[i]>>]
          /\ obj' = r.heap
    /\ UNCHANGED <<registry, threads, seen, idivOverflow>>

SubAssign(i, j) ==
    /\ res.op = "none"
    /\ \E r \in {operatorMinusAssign(obj, i, j)} :
          /\ res' = [op |-> "sub", in |-> <<i, j, obj>>, status |-> r.status,
                     out |-> <<r.heap[i]>>]
          /\ obj' = r.heap
    /\ UNCHANGED <<registry, threads, seen, idivOverflow>>

InitArith ==
    /\ \E e \in PlainScaleExps : RegistrySetTo(e)
    /\ ValuesIdle({"trap"})
    /\ obj \in [ObjIds -> ArithValues]

NextArith ==
    \/ \E i, j \in ObjIds : AddAssign(i, j)
    \/ \E i, j \in ObjIds : SubAssign(i, j)

SpecArith == InitArith /\ [][NextArith]_vars

\* C3: for every receiver and every operand, the receiver itself included, an
\* addition or subtraction fails with the overflow error exactly when the exact
\* sum or difference is outside the signed 64-bit range, and after the failure
\* the receiver's raw tick count is what it was before the operation.
C3_OverflowRestoresReceiver ==
    (res.op \in {"add", "sub"}) =>
        LET i      == res.in[1]
            j      == res.in[2]
            before == res.in[3]
            exact  == IF res.op = "add" THEN ZAdd(before[i], before[j])
                                        ELSE ZSub(before[i], before[j])
        IN  /\ (res.status = "overflow") <=> ~InInt64(exact)
            /\ (res.status = "overflow") => obj = before
            /\ (res.status = "ok") => obj = [before EXCEPT ![i] = exact]

-----------------------------------------------------------------------------
(* SpecUnit: inUnit(u) and split(u) on a value, with the resolution fixed *)

UnitValues == CtorValues

InUnit(i, unit) ==
    /\ res.op = "none"
    /\ \E r \in {inUnit(obj[i], unit)} :
          res' = [op |-> "inUnit", in |-> <<obj[i], unit>>, status |-> r.status,
                  out |-> <<r.x>>]
    /\ UNCHANGED <<registry, threads, seen, idivOverflow, obj>>

Split(i, unit) ==
    /\ res.op = "none"
    /\ \E r \in {split(obj[i], unit)} :
          res' = [op |-> "split", in |-> <<obj[i], unit>>, status |-> r.status,
                  out |-> <<r.outValue, r.outRemainder>>]
    /\ UNCHANGED <<registry, threads, seen, idivOverflow, obj>>

InitUnit ==
    /\ Configured
    /\ ValuesIdle({"trap"})
    /\ obj \in [ObjIds -> UnitValues]
    /\ \A i \in ObjIds \ {1} : obj[i] = ZZero

NextUnit ==
    \/ \E unit \in SimTimeUnit : InUnit(1, unit)
    \/ \E unit \in SimTimeUnit : Split(1, unit)

SpecUnit == InitUnit /\ [][NextUnit]_vars

\* C5, as stated: for every raw value and every unit u, split(u) does not fail
\* and returns (count, remainder) with count = inUnit(u) and
\* self = valueFromInteger(count, u) + remainder exactly.
C5_SplitNeverFails ==
    (res.op = "split") =>
        /\ res.status = "ok"
        /\ res.out[1] = inUnit(res.in[1], res.in[2]).x
        /\ ZMul(res.out[1], Pow10(res.in[2] + 18))
              = ZMul(ZSub(res.in[1], res.out[2]), Pow10(scaleexp + 18))

\* C5, amended: split(u) either fails with the overflow error, which it does
\* only for a unit finer than the resolution (u < e) and exactly when inUnit(u)
\* fails, or returns (count, remainder) with count = inUnit(u) and
\* self = valueFromInteger(count, u) + remainder exactly; for u >= e it
\* succeeds for every raw value.
C5_SplitExactOrOverflow ==
    (res.op = "split") =>
        /\ res.status \in {"ok", "overflow"}
        /\ (res.status = "overflow") => res.in[2] < scaleexp
        /\ (res.status = "overflow") <=> (inUnit(res.in[1], res.in[2]).status = "overflow")
        /\ (res.status = "ok") =>
              /\ res.out[1] = inUnit(res.in[1], res.in[2]).x
              /\ InInt64(res.out[2])
              /\ ZMul(res.out[1], Pow10(res.in[2] + 18))
                    = ZMul(ZSub(res.in[1], res.out[2]), Pow10(scaleexp + 18))

\* C5's case: a split into a coarser unit that leaves a nonzero negative remainder
C5_Witness ==
    /\ res.op = "split" /\ res.status = "ok"
    /\ res.in[2] > scaleexp
    /\ res.out[1] # ZZero
    /\ ZLt(res.out[2], ZZero)

\* C6: with d = u - e, inUnit(u) returns raw / 10^d truncated toward zero when
\* d > 0, raw when d = 0, and when d < 0 raw * 10^(-d) exactly if that product is
\* in the signed 64-bit range and the overflow error exactly if it is not.
C6_InUnitExact ==
    (res.op = "inUnit") =>
        LET raw == res.in[1]
            d   == res.in[2] - scaleexp
        IN  /\ (d > 0) => (res.status = "ok" /\ res.out[1] = ZDivT(raw, Pow10(d)))
            /\ (d = 0) => (res.status = "ok" /\ res.out[1] = raw)
            /\ (d < 0 /\ InInt64(ZMul(raw, Pow10(-d))))
                  => (res.status = "ok" /\ res.out[1] = ZMul(raw, Pow10(-d)))
            /\ (d < 0 /\ ~InInt64(ZMul(raw, Pow10(-d)))) => res.status = "overflow"

-----------------------------------------------------------------------------
(* SpecMul: a *= x for an integer x, on either kind of build *)

MulValues ==
    EndValues \cup Mirror(Near(exp10(9))) \cup Mirror(Near(I64Div(INT64_MAX, exp10(9))))
              \cup Mirror({Z(2^30), ZMul(Z(2^30), Z(4)), ZMul(Z(2^30), Z(8))})

CheckedMul(i, x) ==
    /\ res.op = "none"
    /\ \E r \in {checkedMul(obj[i], x)} :
          /\ res' = [op |-> "mul", in |-> <<obj[i], x>>, status |-> r.status,
                     out |-> <<r.t>>]
          /\ obj' = [obj EXCEPT ![i] = r.t]
    /\ UNCHANGED <<registry, threads, seen, idivOverflow>>

InitMul ==
    /\ \E e \in PlainScaleExps : RegistrySetTo(e)
    /\ ValuesIdle({"trap", "wrap"})
    /\ obj \in [ObjIds -> MulValues]
    /\ \A i \in ObjIds \ {1} : obj[i] = ZZero

NextMul == \E x \in MulValues : CheckedMul(1, x)

SpecMul == InitMul /\ [][NextMul]_vars

\* C8: for every raw value and every multiplier x, a *= x either sets raw to the
\* exact product raw * x (to 0 for x = 0), or, exactly when the product is
\* outside the signed 64-bit range, fails with the overflow error and leaves
\* raw as it was; a wrapped product is never stored.
C8_MulExactOrOverflow ==
    (res.op = "mul") =>
        LET raw   == res.in[1]
            exact == ZMul(res.in[1], res.in[2])
        IN  /\ res.status \in {"ok", "overflow"}
            /\ (res.status = "overflow") <=> ~InInt64(exact)
            /\ (res.status = "ok") => obj[1] = exact
            /\ (res.status = "overflow") => obj[1] = raw

-----------------------------------------------------------------------------
(* SpecUstr: the compact form ustr(), with the resolution fixed *)

UstrValues == EndValues \cup UNION {Mirror(Near(exp10(k))) : k \in 0..MAX_POWER_OF_TEN}

Ustr(i) ==
    /\ res.op = "none"
    /\ \E r \in {ustr(obj[i])} :
          res' = [op |-> "ustr", in |-> <<obj[i]>>, status |-> "ok", out |-> <<r>>]
    /\ UNCHANGED <<registry, threads, seen, idivOverflow, obj>>

InitUstr ==
    /\ Configured
    /\ ValuesIdle({"trap"})
    /\ obj \in [ObjIds -> UstrValues]
    /\ \A i \in ObjIds \ {1} : obj[i] = ZZero

NextUstr == Ustr(1)

SpecUstr == InitUstr /\ [][NextUstr]_vars

\* C9, as stated: zero renders as "0s"; otherwise the unit exponent u selected is
\* in {0, -3, ..., -18} with e <= u <= 0 and is the coarsest such unit whose
\* integer part |raw| div 10^(u - e) is nonzero.
C9_CoarsestUnitWithinResolution ==
    (res.op = "ustr") =>
        LET raw == res.in[1]
            u   == res.out[1].unitExp
        IN  IF raw = ZZero
            THEN res.out[1].t = ZZero /\ res.out[1].exp = 0 /\ res.out[1].unit = "s"
            ELSE /\ u \in SimTimeUnit
                 /\ scaleexp <= u /\ u <= 0
                 /\ ZDivT(ZAbs(raw), Pow10(u - scaleexp)) # ZZero
                 /\ \A c \in SimTimeUnit :
                       (c > u /\ scaleexp <= c) => ZDivT(ZAbs(raw), Pow10(c - scaleexp)) = ZZero

\* C9, amended: zero renders as "0s"; otherwise the unit exponent u selected is
\* in {0, -3, ..., -18} with e - 3 < u <= 0 (never coarser than seconds, less
\* than one unit step finer than the resolution, and u >= e when e is a multiple
\* of 3) and is the coarsest unit of that set at which the integer part of
\* |raw| * 10^(e - u) is nonzero.
C9_CoarsestUnitWithNonzeroIntegerPart ==
    (res.op = "ustr") =>
        LET raw == res.in[1]
            u   == res.out[1].unitExp
            IntegerPartNonzero(c) ==
                IF c <= scaleexp THEN raw # ZZero
                ELSE ZDivT(ZAbs(raw), Pow10(c - scaleexp)) # ZZero
        IN  IF raw = ZZero
            THEN res.out[1].t = ZZero /\ res.out[1].exp = 0 /\ res.out[1].unit = "s"
            ELSE /\ u \in SimTimeUnit
                 /\ scaleexp - 3 < u /\ u <= 0
                 /\ (scaleexp \in SimTimeUnit => scaleexp <= u)
                 /\ res.out[1].t = raw /\ res.out[1].exp = scaleexp - u
                 /\ IntegerPartNonzero(u)
                 /\ \A c \in SimTimeUnit : c > u => ~IntegerPartNonzero(c)

\* C9's case: a resolution between two units and a magnitude below the finest
\* unit above it, rendered in the unit just below the resolution
C9_Witness ==
    /\ res.op = "ustr"
    /\ res.in[1] # ZZero
    /\ res.out[1].unitExp < scaleexp
    /\ res.out[1].unitExp > scaleexp - 3

-----------------------------------------------------------------------------
(* SpecDiv: x / y for an integer x and a SimTime y, simtime.cc:288-328, on   *)
(* either kind of build                                                      *)

\* simtime.cc:288-296: gcd.  a % b is INT64_MIN % -1 when a = INT64_MIN and b = -1
RECURSIVE gcd(_, _)
gcd(a, b) ==
    IF b = ZZero THEN [status |-> "ok", a |-> a]
    ELSE IF DivOverflows(a, b) /\ idivOverflow = "trap" THEN [status |-> "sigfpe", a |-> a]
    ELSE gcd(b, I64Rem(a, b))

\* the process is killed by SIGFPE inside operator/
operatorDivTrapped(num1, num2, denom, reduced) ==
    [path |-> "sigfpe", reduced |-> reduced, num1 |-> num1, num2 |-> num2, num |-> ZZero,
     denom |-> denom]

\* line 312 and 323: (double)num1 * (double)num2 / double(denom)
operatorDivDouble(num1, num2, denom, reduced) ==
    [path |-> "double", reduced |-> reduced, num1 |-> num1, num2 |-> num2, num |-> ZZero,
     denom |-> denom]

\* line 326: (denom == 1) ? (double)num : (double)num / (double)denom
operatorDivReturn(num1, num2, num, denom, reduced) ==
    [path |-> IF denom = Z(1) THEN "integer" ELSE "quotient", reduced |-> reduced,
     num1 |-> num1, num2 |-> num2, num |-> num, denom |-> denom]

\* line 321-323: the product of the reduced factors, and the second overflow test
operatorDivRecheck(num1, num2, num, denom) ==
    IF DivOverflows(num, num2) /\ idivOverflow = "trap"
    THEN operatorDivTrapped(num1, num2, denom, TRUE)
    ELSE IF I64Div(num, num2) # num1
    THEN operatorDivDouble(num1, num2, denom, TRUE)
    ELSE operatorDivReturn(num1, num2, num, denom, TRUE)

\* line 319: num2 /= gcd2; denom /= gcd2
operatorDivSecond(num1, num2, denom, gcd2) ==
    IF gcd2.status = "sigfpe"
          \/ ((DivOverflows(num2, gcd2.a) \/ DivOverflows(denom, gcd2.a))
                /\ idivOverflow = "trap")
    THEN operatorDivTrapped(num1, num2, denom, TRUE)
    ELSE operatorDivRecheck(num1, I64Div(num2, gcd2.a),
                            I64Mul(num1, I64Div(num2, gcd2.a)), I64Div(denom, gcd2.a))

\* line 318: gcd2 = gcd(num2, denom)
operatorDivReduced(num1, num2, denom) ==
    operatorDivSecond(num1, num2, denom, gcd(num2, denom))

\* line 316: num1 /= gcd1; denom /= gcd1
operatorDivFirst(num1, num2, denom, gcd1) ==
    IF gcd1.status = "sigfpe"
          \/ ((DivOverflows(num1, gcd1.a) \/ DivOverflows(denom, gcd1.a))
                /\ idivOverflow = "trap")
    THEN operatorDivTrapped(num1, num2, denom, TRUE)
    ELSE operatorDivReduced(I64Div(num1, gcd1.a), num2, I64Div(denom, gcd1.a))

\* line 306-315: the first product, its overflow test, and gcd1 = gcd(num1, denom)
operatorDivProduct(num1, num2, num, denom) ==
    IF I64Div(num, num2) = num1
    THEN operatorDivReturn(num1, num2, num, denom, FALSE)
    ELSE IF denom = ZZero
    THEN operatorDivDouble(num1, num2, denom, FALSE)
    ELSE operatorDivFirst(num1, num2, denom, gcd(num1, denom))

\* simtime.cc:298-328: double operator/(long long x, const SimTime& y), with y.t = t
operatorDiv(x, t) ==
    operatorDivProduct(x, powersOfTen[-scaleexp], I64Mul(x, powersOfTen[-scaleexp]), t)

DivScaleExps == {-18, -3, 0}

DivNumerators ==
    Near(ZZero) \cup {INT64_MIN, INT64_MAX} \cup Mirror({Z(3), Z(10), Z(11), Z(125), Z(10^9)})
                \cup Mirror({ZMul(Z(2^30), Z(2^15)), ZMul(Z(10^9), Z(10^9))})

DivDenominators ==
    Near(ZZero) \cup {INT64_MIN, INT64_MAX} \cup Mirror({Z(3), Z(5), Z(10), Z(2^15)})
                \cup Mirror({ZMul(Z(2^30), Z(2^15)), ZMul(Z(10^9), Z(10^9))})

Divide(x, i) ==
    /\ res.op = "none"
    /\ \E r \in {operatorDiv(x, obj[i])} :
          res' = [op |-> "div", in |-> <<x, obj[i]>>, status |-> r.path, out |-> <<r>>]
    /\ UNCHANGED <<registry, threads, seen, idivOverflow, obj>>

InitDiv ==
    /\ \E e \in DivScaleExps : RegistrySetTo(e)
    /\ ValuesIdle({"trap", "wrap"})
    /\ obj \in [ObjIds -> DivDenominators]
    /\ \A i \in ObjIds \ {1} : obj[i] = ZZero

NextDiv == \E x \in DivNumerators : Divide(x, 1)

SpecDiv == InitDiv /\ [][NextDiv]_vars

\* C10: in x / y with y.raw # 0, whenever the result is not produced by the
\* floating-point fallback, the integers num and denom finally divided satisfy
\* num * y.raw = x * integerScale * denom with denom # 0, and when the fraction
\* was reduced and y.raw divides x * integerScale the denominator is 1 and num
\* is the exact quotient.
C10_ReductionPreservesFraction ==
    (res.op = "div" /\ res.in[2] # ZZero /\ res.status \in {"integer", "quotient"}) =>
        LET x     == res.in[1]
            raw   == res.in[2]
            num   == res.out[1].num
            denom == res.out[1].denom
            scaled == ZMul(x, Pow10(-scaleexp))
        IN  /\ denom # ZZero
            /\ ZMul(num, raw) = ZMul(scaled, denom)
            /\ (res.out[1].reduced /\ ZRemT(scaled, raw) = ZZero)
                  => (denom = Z(1) /\ res.status = "integer" /\ num = ZDivT(scaled, raw))

-----------------------------------------------------------------------------
(* SpecFormat: the full form format(prec, decimalSep, digitSep, addUnits),   *)
(* simtime.cc:385-433, with decimalSep "." and empty beforeUnit, afterUnit.  *)
(* The text produced is kept as the sequence of its pieces: one record per   *)
(* decimal place printed, holding the place, its digit and what follows it.  *)

\* a null const char*
nullptr == "<nullptr>"

\* C's / and % on int, for a positive divisor: the quotient truncates toward zero
IntDivT(a, b) == IF a >= 0 THEN a \div b ELSE -((-a) \div b)

IntRemT(a, b) == a - b * IntDivT(a, b)

DigitChars == <<"0", "1", "2", "3", "4", "5", "6", "7", "8", "9">>

\* the four decimal digits of one limb, most significant first
LimbDigits(n) ==
    <<DigitChars[(n \div 1000) + 1], DigitChars[((n \div 100) % 10) + 1],
      DigitChars[((n \div 10) % 10) + 1], DigitChars[(n % 10) + 1]>>

RECURSIVE NAllDigits(_)
NAllDigits(a) == IF a = <<>> THEN <<>> ELSE NAllDigits(Tail(a)) \o LimbDigits(Head(a))

RECURSIVE StripZeros(_)
StripZeros(d) == IF Len(d) > 1 /\ Head(d) = "0" THEN StripZeros(Tail(d)) ELSE d

\* line 400: snprintf(digits, sizeof(digits), "%" PRId64, v): a minus sign for a
\* negative v, then the decimal digits of its magnitude without leading zeros
snprintfPRId64(v) ==
    (IF v.neg THEN <<"-">> ELSE <<>>) \o StripZeros(<<"0">> \o NAllDigits(v.mag))

\* line 400: the argument t<0 ? -t : t, which is INT64_MIN again for t = INT64_MIN
formatDigits(t) == snprintfPRId64(IF ZLt(t, ZZero) THEN I64Neg(t) ELSE t)

\* endDecimal with the quotient rounded toward zero and no bias: -1 and -2 give 0
formatEndDecimalTowardZero(prec, digitSep, addUnits) ==
    IF IntRemT(prec, 3) # 0 /\ (addUnits \/ digitSep # nullptr)
    THEN 3 * IntDivT(prec, 3)
    ELSE prec

\* line 404, 407-410: endDecimal, for prec in -18..0 and digitSep as line 391 left it
formatEndDecimal(prec, digitSep, addUnits) ==
    IF IntRemT(IF prec > 0 THEN 0 ELSE prec, 3) # 0 /\ (addUnits \/ digitSep # nullptr)
    THEN 3 * IntDivT((IF prec > 0 THEN 0 ELSE prec) - 2, 3)
    ELSE (IF prec > 0 THEN 0 ELSE prec)

\* line 403, 405-406: startDecimal
formatStartDecimal(numDigits) ==
    IF scaleexp + numDigits - 1 < 0 THEN 0 ELSE scaleexp + numDigits - 1

\* line 415-425: what follows the digit of decimalPlace
formatSuffix(decimalPlace, endDecimal, digitSep, addUnits) ==
    IF IntRemT(decimalPlace, 3) # 0 THEN ""
    ELSE IF addUnits /\ decimalPlace <= 0 /\ decimalPlace >= -18
    THEN unitNames[IntDivT(-decimalPlace, 3) + 1]
    ELSE IF decimalPlace = 0 THEN (IF endDecimal < 0 THEN "." ELSE "")
    ELSE IF digitSep # nullptr /\ decimalPlace # endDecimal THEN digitSep
    ELSE ""

\* line 413-414: the digit printed at decimalPlace
formatDigit(decimalPlace, digits) ==
    IF (scaleexp + Len(digits) - 1) - decimalPlace < 0
          \/ (scaleexp + Len(digits) - 1) - decimalPlace >= Len(digits)
    THEN "0"
    ELSE digits[(scaleexp + Len(digits) - 1) - decimalPlace + 1]

\* line 412-426: the for loop, from decimalPlace down to endDecimal
RECURSIVE formatLoop(_, _, _, _, _)
formatLoop(decimalPlace, endDecimal, digits, digitSep, addUnits) ==
    IF decimalPlace < endDecimal THEN <<>>
    ELSE <<[place |-> decimalPlace, digit |-> formatDigit(decimalPlace, digits),
            suffix |-> formatSuffix(decimalPlace, endDecimal, digitSep, addUnits)]>>
         \o formatLoop(decimalPlace - 1, endDecimal, digits, digitSep, addUnits)

\* line 396-428, with digits and digitSep settled
formatOut(t, prec, digits, digitSep, addUnits) ==
    [status |-> "ok", sign |-> IF ZLt(t, ZZero) THEN "-" ELSE "",
     out |-> formatLoop(formatStartDecimal(Len(digits)),
                        formatEndDecimal(prec, digitSep, addUnits), digits, digitSep,
                        addUnits)]

\* simtime.cc:385-433: SimTime::format.  status "range": the cRuntimeError of line 390;
\* line 391 turns an empty digitSep into a null one
format(t, prec, digitSep, addUnits) ==
    IF prec > 0 \/ prec < -18
    THEN [status |-> "range", sign |-> "", out |-> <<>>]
    ELSE formatOut(t, prec, formatDigits(t), IF digitSep = "" THEN nullptr ELSE digitSep,
                   addUnits)

FormatValues == Near(ZZero) \cup {INT64_MIN, INT64_MAX} \cup Mirror({Z(1500)})

\* prec as callers pass it: in range, and just out of range
PrecArgs == -19..1

DigitSeps == {nullptr, "", ","}

Format(i, prec, digitSep, addUnits) ==
    /\ res.op = "none"
    /\ \E r \in {format(obj[i], prec, digitSep, addUnits)} :
          res' = [op |-> "format", in |-> <<obj[i], prec, digitSep, addUnits>>,
                  status |-> r.status, out |-> <<r.sign, r.out>>]
    /\ UNCHANGED <<registry, threads, seen, idivOverflow, obj>>

InitFormat ==
    /\ Configured
    /\ ValuesIdle({"trap"})
    /\ obj \in [ObjIds -> FormatValues]
    /\ \A i \in ObjIds \ {1} : obj[i] = ZZero

NextFormat ==
    \E prec \in PrecArgs, digitSep \in DigitSeps, addUnits \in BOOLEAN :
        Format(1, prec, digitSep, addUnits)

SpecFormat == InitFormat /\ [][NextFormat]_vars

\* C11: for every prec in [-18, 0] format succeeds; when neither a digit-group
\* separator nor unit annotation is requested the last decimal place emitted is
\* prec; when either is requested it is the largest multiple of 3 that is
\* <= prec (so -1 and -2 give -3), never below -18; in both cases decimal place
\* 0 is emitted, and the places emitted are consecutive and descending.
C11_EndDecimal ==
    (res.op = "format" /\ res.in[2] \in -18..0) =>
        LET prec    == res.in[2]
            grouped == res.in[4] \/ res.in[3] \notin {nullptr, ""}
            out     == res.out[2]
            last    == out[Len(out)].place
        IN  /\ res.status = "ok"
            /\ Len(out) >= 1
            /\ ~grouped => last = prec
            /\ grouped =>
                  /\ (-last) % 3 = 0 /\ last <= prec /\ last > prec - 3
                  /\ last >= -18
                  /\ (prec \in {-1, -2} => last = -3)
            /\ \E k \in 1..Len(out) : out[k].place = 0
            /\ \A k \in 1..(Len(out) - 1) : out[k + 1].place = out[k].place - 1

\* C11's case: grouping requested with a prec that is not a multiple of 3
C11_Witness ==
    /\ res.op = "format" /\ res.status = "ok"
    /\ res.in[2] \in {-1, -2}
    /\ res.in[3] = "," /\ ~res.in[4]
    /\ res.out[2][Len(res.out[2])].place = -3

=============================================================================
